---- MODULE Spec2Model ----
(***************************************************************************)
(* Model of the New Relic CSV extraction of src/main.py: the /csv-download *)
(* handler (csv_download), the date parser (parse_brazilian_datetime), the *)
(* query client (fetch_newrelic_data) and the recursive extractor         *)
(* (fetch_recursive).                                                      *)
(*                                                                         *)
(* Representation.                                                         *)
(*  - A Python value is a tagged record: [t |-> "None"], [t |-> "str",     *)
(*    v |-> s], [t |-> "list", v |-> runs], [t |-> "dict", v |-> f].       *)
(*  - A datetime / timedelta is [s |-> seconds, us |-> microseconds] with  *)
(*    0 <= us < 1000000, as Python normalises them.  Seconds count from    *)
(*    the wall-clock minute 0 of the form's date field.                    *)
(*  - A list of records is run-length encoded: a run                       *)
(*    [timestamp, src, lo, hi] stands for the records                      *)
(*    (timestamp, src, lo), (timestamp, src, lo+1) .. (timestamp, src, hi) *)
(*    in that order; a list is a sequence of runs.                         *)
(***************************************************************************)
EXTENDS FiniteSets, Integers, Sequences, TLC

(* ----------------------------- bounds --------------------------------- *)
\* form dates are the wall-clock minutes 0..MaxMinute (and one far date)
MaxMinute == 3
\* windows given directly to fetch_recursive carry 0..MaxMicro microseconds
MaxMicro == 3
\* the recursion of fetch_recursive is explored down to this depth
MaxDepth == 6

(* ------------------------- program constants -------------------------- *)
MAX_RESULTS == 5000
MicrosPerSecond == 1000 * 1000
MIN_INTERVAL == [s |-> 60, us |-> 0]
DAY == [s |-> 24 * 3600, us |-> 0]
\* timezone(timedelta(hours=-3)): UTC = wall clock + 3 hours
TZ_BR_SECONDS == 3 * 3600

(* --------------------------- Python values ---------------------------- *)
None == [t |-> "None"]
PyStr(s) == [t |-> "str", v |-> s]
PyList(runs) == [t |-> "list", v |-> runs]
PyDict(f) == [t |-> "dict", v |-> f]
EmptyDict == PyDict(<<>>)
Raise(e) == [t |-> "raise", v |-> e]

RECURSIVE Count(_)
\* len() of a run-length encoded list of records
Count(runs) ==
    IF runs = <<>> THEN 0
    ELSE (Head(runs).hi - Head(runs).lo + 1) + Count(Tail(runs))

\* Python truthiness: `if error:`, `if results:`, `if not company_id`
Truthy(x) ==
    CASE x.t = "None" -> FALSE
      [] x.t = "str"  -> x.v # ""
      [] x.t = "chars" -> x.v # <<>>
      [] x.t = "list" -> x.v # <<>>
      [] x.t = "dict" -> DOMAIN x.v # {}
      [] OTHER        -> TRUE

\* dict.get(key, default); any other receiver has no attribute `get`
PyGet(obj, key, default) ==
    IF obj.t = "raise" THEN obj
    ELSE IF obj.t # "dict" THEN Raise("AttributeError")
    ELSE IF key \in DOMAIN obj.v THEN obj.v[key]
    ELSE default

\* len(results)
PyLen(x) ==
    CASE x.t = "list" -> Count(x.v)
      [] x.t = "dict" -> Cardinality(DOMAIN x.v)
      [] OTHER        -> -1

HasLen(x) == x.t \in {"list", "dict"}

(* ------------------------ datetime arithmetic ------------------------- *)
\* datetime - datetime -> timedelta (normalised, seconds may be negative)
TdSub(a, b) ==
    LET u == a.us - b.us
    IN  [s |-> a.s - b.s + (u \div MicrosPerSecond), us |-> u % MicrosPerSecond]

\* datetime + timedelta -> datetime
DtAdd(a, d) ==
    LET u == a.us + d.us
    IN  [s |-> a.s + d.s + (u \div MicrosPerSecond), us |-> u % MicrosPerSecond]

TdLe(a, b) == a.s < b.s \/ (a.s = b.s /\ a.us <= b.us)
TdLt(a, b) == a.s < b.s \/ (a.s = b.s /\ a.us < b.us)

\* timedelta / 2: the microsecond count divided by 2, ties rounded to even
TdHalf(d) ==
    LET t == (d.s % 2) * MicrosPerSecond + d.us
        q == t \div 2
        h == IF t % 2 = 1 /\ q % 2 = 1 THEN q + 1 ELSE q
    IN  [s |-> (d.s \div 2) + (h \div MicrosPerSecond), us |-> h % MicrosPerSecond]

\* strftime('%Y-%m-%d %H:%M:%S'): the microseconds are dropped
Strftime(dt) == dt.s

(* ------------------------------ the form ------------------------------ *)
\* A form text field holding the characters cs (request.form.get).
Chars(cs) == [t |-> "chars", v |-> cs]
Whitespace == {" "}

RECURSIVE LStrip(_)
LStrip(cs) ==
    IF cs # <<>> /\ Head(cs) \in Whitespace THEN LStrip(Tail(cs)) ELSE cs

RECURSIVE RStrip(_)
RStrip(cs) ==
    IF cs # <<>> /\ cs[Len(cs)] \in Whitespace
    THEN RStrip(SubSeq(cs, 1, Len(cs) - 1)) ELSE cs

\* str.strip()
Strip(x) == Chars(RStrip(LStrip(x.v)))

\* A datetime-local field: a well-formed 'YYYY-MM-DDTHH:MM' text naming the
\* wall-clock minute m, a text in another format, or an absent field.
DateText(m) == [t |-> "str", minute |-> m]
BadDateText == [t |-> "str", v |-> "31/12/2024 10:00"]
FarMinute == MaxMinute + 24 * 60 + 1
DateFields == {DateText(m) : m \in 0..MaxMinute} \cup {DateText(FarMinute), BadDateText, None}
CompanyFields == {None, Chars(<<>>), Chars(<<" ">>), Chars(<<"7">>)}
Forms == [start_date : DateFields, end_date : DateFields, company_id : CompanyFields]

\* parse_brazilian_datetime: (dt_utc, None), (None, message), or TypeError
\* when strptime is handed something that is not a string.
parse_brazilian_datetime(date_str) ==
    IF date_str.t # "str" THEN Raise("TypeError")
    ELSE IF "minute" \in DOMAIN date_str
    THEN [t |-> "pair",
          value |-> [s |-> date_str.minute * 60 + TZ_BR_SECONDS, us |-> 0],
          error |-> None]
    ELSE [t |-> "pair", value |-> None, error |-> PyStr("Erro ao parsear data")]

(* ------------------------- the query service -------------------------- *)
\* The NRQL query of one call: SINCE and UNTIL are the window's bounds as
\* strftime prints them.
Query(start_time, end_time) ==
    [since |-> Strftime(start_time), until |-> Strftime(end_time)]

Path == <<"data", "actor", "account", "nrql", "results">>

RECURSIVE Nest(_, _)
\* the JSON object {keys[1]: {keys[2]: ... leaf}}
Nest(keys, leaf) ==
    IF keys = <<>> THEN leaf
    ELSE PyDict(Head(keys) :> Nest(Tail(keys), leaf))

OkBody(page) == [json |-> TRUE, value |-> Nest(Path, PyList(page))]
NotJson == [json |-> FALSE]
\* parsed bodies without the expected structure: a JSON array, an object
\* where the path stops at an empty object, an object where it hits null
MalformedBodies ==
    {[json |-> TRUE, value |-> PyList(<<>>)]}
    \cup {[json |-> TRUE, value |-> Nest(SubSeq(Path, 1, k), EmptyDict)] : k \in 0..4}
    \cup {[json |-> TRUE, value |-> Nest(SubSeq(Path, 1, k), None)] : k \in 1..5}

StatusCodes == {200, 300, 404, 503}
Down == [net |-> "down"]
Http(status, body) == [net |-> "up", status |-> status, body |-> body]

\* the stored log events: timestamps (epoch milliseconds) -> number of events
ClusterTimes ==
    {(TZ_BR_SECONDS + 60) * 1000 - 1, (TZ_BR_SECONDS + 60) * 1000,
     (TZ_BR_SECONDS + 120) * 1000}
ClusterSizes == {0, MAX_RESULTS \div 2, MAX_RESULTS}
Datasets == [ClusterTimes -> ClusterSizes]
NoData == [ts \in ClusterTimes |-> 0]

RECURSIVE Ascending(_)
\* the timestamps of a set, ORDER BY timestamp ASC
Ascending(S) ==
    IF S = {} THEN <<>>
    ELSE LET m == CHOOSE x \in S : \A y \in S : x <= y
         IN  <<m>> \o Ascending(S \ {m})

RECURSIVE Take(_, _)
\* the first n records of a list
Take(runs, n) ==
    IF n <= 0 \/ runs = <<>> THEN <<>>
    ELSE LET r == Head(runs)
             k == r.hi - r.lo + 1
         IN  IF k <= n THEN <<r>> \o Take(Tail(runs), n - k)
             ELSE <<[r EXCEPT !.hi = r.lo + n - 1]>>

\* every stored event with since <= timestamp < until, oldest first
Matching(d, q) ==
    LET hit == {ts \in ClusterTimes :
                   /\ d[ts] > 0
                   /\ q.since * 1000 <= ts
                   /\ ts < q.until * 1000}
        order == Ascending(hit)
    IN  [i \in 1..Len(order) |->
            [timestamp |-> order[i], src |-> 0, lo |-> 1, hi |-> d[order[i]]]]

\* the page an exact service answers: the matching events, LIMIT MAX
ServicePage(d, q) == Take(Matching(d, q), MAX_RESULTS)

\* a page of n records made up for call number c
SyntheticPage(c, q, n) ==
    IF n = 0 THEN <<>>
    ELSE <<[timestamp |-> q.since * 1000, src |-> c, lo |-> 1, hi |-> n]>>

PageSizes == {0, MAX_RESULTS - 1, MAX_RESULTS}

\* what requests.post can come back with for call number c and query q
Responses(svc, d, c, q) ==
    IF svc = "exact"
    THEN {Down, Http(503, NotJson), Http(200, OkBody(ServicePage(d, q)))}
    ELSE {Down}
         \cup {Http(st, NotJson) : st \in StatusCodes}
         \cup {Http(st, b) : st \in {200, 300}, b \in MalformedBodies}
         \cup {Http(st, OkBody(SyntheticPage(c, q, n))) : st \in {200, 300}, n \in PageSizes}

(* ----------------------- fetch_newrelic_data -------------------------- *)
Result(results, error) == [t |-> "ret", results |-> results, error |-> error]

\* the code after requests.post: raise_for_status, json(), the dict check
\* and the chain of get() calls
fetch_newrelic_data(resp) ==
    IF resp.net = "down"
    THEN Result(PyList(<<>>), PyStr("Erro na requisicao: ConnectionError"))
    ELSE IF resp.status >= 400 /\ resp.status < 600
    THEN Result(PyList(<<>>), PyStr("Erro na requisicao: " \o ToString(resp.status)))
    ELSE IF ~resp.body.json
    THEN Result(PyList(<<>>),
                PyStr("Erro: Resposta da API nao e um JSON valido (" \o ToString(resp.status) \o ")"))
    ELSE IF resp.body.value.t # "dict"
    THEN Result(PyList(<<>>), PyStr("Erro: Resposta da API nao contem um dicionario valido"))
    ELSE LET data == resp.body.value
             actor == PyGet(data, "data", EmptyDict)
             account == PyGet(actor, "actor", EmptyDict)
             nrql == PyGet(account, "account", EmptyDict)
             res == PyGet(nrql, "nrql", EmptyDict)
             results == PyGet(res, "results", PyList(<<>>))
         IN  IF results.t = "raise" THEN results ELSE Result(results, None)

(* ------------------------------- state -------------------------------- *)
VARIABLES
    service,    \* "any": the service answers anything; "exact": it answers from data
    data,       \* the stored events of the exact service
    phase,      \* "idle", "extracting", "returned", "responded", "crashed"
    entry,      \* who called fetch_recursive: "csv_download" or "caller"
    form,       \* the POSTed form of the csv_download request (None without one)
    root,       \* the window of the outermost fetch_recursive call
    stack,      \* the activation records of fetch_recursive, innermost last
    ret,        \* the value returned by the fetch_recursive call that just ended
    inflight,   \* the queries posted and not yet answered
    wire,       \* the HTTP response that answered the latest query
    calls,      \* the completed calls of fetch_newrelic_data, in order
    leaves,     \* the windows whose page was accepted, in order
    response    \* what csv_download answered

vars == <<service, data, phase, entry, form, root, stack, ret, inflight, wire,
          calls, leaves, response>>

NoRet == [t |-> "noret"]
Window(start_time, end_time) == [start_time |-> start_time, end_time |-> end_time]
Frame(start_time, end_time, depth) ==
    [start_time |-> start_time, end_time |-> end_time, depth |-> depth,
     pc |-> "fetch", mid_time |-> None, left_results |-> None]

\* windows a caller may hand to fetch_recursive directly
DirectTimes ==
    {[s |-> TZ_BR_SECONDS + k, us |-> u] : k \in {0, 60}, u \in 0..MaxMicro}
DirectWindows ==
    {Window(a, b) : a \in {t \in DirectTimes : t.s = TZ_BR_SECONDS /\ t.us <= 1},
                    b \in DirectTimes}

Init ==
    /\ service \in {"any", "exact"}
    /\ data \in IF service = "exact" THEN Datasets ELSE {NoData}
    /\ phase = "idle"
    /\ entry = "none"
    /\ form = None
    /\ root = None
    /\ stack = <<>>
    /\ ret = NoRet
    /\ inflight = <<>>
    /\ wire = None
    /\ calls = <<>>
    /\ leaves = <<>>
    /\ response = None

(* ---------------------------- csv_download ---------------------------- *)
\* render_template_string(HTML_CSV_DOWNLOAD, error=, results=): which of the
\* two conditional paragraphs the page shows
HTML_CSV_DOWNLOAD(error, results) ==
    [t |-> "response", kind |-> "html",
     error |-> IF Truthy(error) THEN error ELSE None,
     not_found |-> results.t # "None" /\ PyLen(results) = 0,
     rows |-> <<>>]

\* an exception that escapes the view: Flask answers 500
InternalServerError(e) ==
    [t |-> "response", kind |-> "500", error |-> PyStr(e), not_found |-> FALSE,
     rows |-> <<>>]

\* Validate without the 24-hour test of line 350
ValidateNoSpan(f) ==
    LET company_id == f.company_id
        s == parse_brazilian_datetime(f.start_date)
        e == parse_brazilian_datetime(f.end_date)
    IN  IF ~Truthy(company_id) \/ ~Truthy(Strip(company_id))
        THEN HTML_CSV_DOWNLOAD(PyStr("Company ID nao pode ser vazio."), None)
        ELSE IF s.t = "raise" THEN s
        ELSE IF Truthy(s.error) THEN HTML_CSV_DOWNLOAD(s.error, None)
        ELSE IF e.t = "raise" THEN e
        ELSE IF Truthy(e.error) THEN HTML_CSV_DOWNLOAD(e.error, None)
        ELSE [t |-> "window", start_time |-> s.value, end_time |-> e.value]

\* the validation of csv_download: the page it answers with, the exception
\* that escapes it, or the window it hands to fetch_recursive
Validate(f) ==
    LET company_id == f.company_id
        s == parse_brazilian_datetime(f.start_date)
        e == parse_brazilian_datetime(f.end_date)
    IN  IF ~Truthy(company_id) \/ ~Truthy(Strip(company_id))
        THEN HTML_CSV_DOWNLOAD(PyStr("Company ID nao pode ser vazio."), None)
        ELSE IF s.t = "raise" THEN s
        ELSE IF Truthy(s.error) THEN HTML_CSV_DOWNLOAD(s.error, None)
        ELSE IF e.t = "raise" THEN e
        ELSE IF Truthy(e.error) THEN HTML_CSV_DOWNLOAD(e.error, None)
        ELSE IF TdLt(DAY, TdSub(e.value, s.value))
        THEN HTML_CSV_DOWNLOAD(
                 PyStr("O intervalo entre as datas nao pode exceder 24 horas."), None)
        ELSE [t |-> "window", start_time |-> s.value, end_time |-> e.value]

\* POST /csv-download, up to the call of fetch_recursive
csv_download(f) ==
    /\ phase = "idle"
    /\ form' = f
    /\ entry' = "csv_download"
    /\ LET v == Validate(f)
       IN  IF v.t = "window"
           THEN /\ phase' = "extracting"
                /\ root' = Window(v.start_time, v.end_time)
                /\ stack' = <<Frame(v.start_time, v.end_time, 0)>>
                /\ response' = response
           ELSE IF v.t = "raise"
           THEN /\ phase' = "crashed"
                /\ response' = InternalServerError(v.v)
                /\ UNCHANGED <<root, stack>>
           ELSE /\ phase' = "responded"
                /\ response' = v
                /\ UNCHANGED <<root, stack>>
    /\ UNCHANGED <<service, data, ret, inflight, wire, calls, leaves>>

\* a direct call fetch_recursive(w.start_time, w.end_time, company_id)
fetch(w) ==
    /\ phase = "idle"
    /\ entry' = "caller"
    /\ phase' = "extracting"
    /\ root' = w
    /\ stack' = <<Frame(w.start_time, w.end_time, 0)>>
    /\ UNCHANGED <<service, data, form, ret, inflight, wire, calls, leaves, response>>

(* --------------------------- fetch_recursive -------------------------- *)
\* the floor test with < in place of <=
AtFloorStrict(start_time, end_time) == TdLt(TdSub(end_time, start_time), MIN_INTERVAL)

\* line 83: the window is at or below the floor
AtFloor(start_time, end_time) == TdLe(TdSub(end_time, start_time), MIN_INTERVAL)

\* the split point put at the end of the window
MidTimeAtEnd(start_time, end_time) == end_time

\* the split point left at the start of the window
MidTimeAtStart(start_time, end_time) == start_time

\* line 92: mid_time = start_time + (end_time - start_time) / 2
MidTime(start_time, end_time) ==
    DtAdd(start_time, TdHalf(TdSub(end_time, start_time)))

\* Decide with <= in place of < at line 89
DecideCapInclusive(start_time, end_time, r) ==
    IF r.t = "raise" THEN "raise"
    ELSE IF TdLe(TdSub(end_time, start_time), MIN_INTERVAL) THEN "return"
    ELSE IF Truthy(r.error) THEN "return"
    ELSE IF ~HasLen(r.results) THEN "raise"
    ELSE IF PyLen(r.results) <= MAX_RESULTS THEN "return"
    ELSE "split"

\* Decide without the floor test of line 83
DecideNoFloor(start_time, end_time, r) ==
    IF r.t = "raise" THEN "raise"
    ELSE IF Truthy(r.error) THEN "return"
    ELSE IF ~HasLen(r.results) THEN "raise"
    ELSE IF PyLen(r.results) < MAX_RESULTS THEN "return"
    ELSE "split"

\* lines 83-91: what fetch_recursive does with the client's answer r for the
\* window: "return" it, "split" the window, or "raise"
Decide(start_time, end_time, r) ==
    IF r.t = "raise" THEN "raise"
    ELSE IF AtFloor(start_time, end_time) THEN "return"
    ELSE IF Truthy(r.error) THEN "return"
    ELSE IF ~HasLen(r.results) THEN "raise"
    ELSE IF PyLen(r.results) < MAX_RESULTS THEN "return"
    ELSE "split"

\* line 93: the window of the left call, fetch_recursive(start_time, mid_time)
LeftCall(start_time, mid_time) == Window(start_time, mid_time)

\* the right call starting one second before the split point
RightCallBefore(mid_time, end_time) ==
    Window(DtAdd(mid_time, [s |-> -1, us |-> 0]), end_time)

\* the right call starting one second after the split point
RightCallAfter(mid_time, end_time) ==
    Window(DtAdd(mid_time, [s |-> 1, us |-> 0]), end_time)

\* line 96: the window of the right call, fetch_recursive(mid_time, end_time)
RightCall(mid_time, end_time) == Window(mid_time, end_time)

\* the error of the left call not looked at
LeftFailsIgnored(left) == FALSE

\* lines 94-95: the left call came back with an error
LeftFails(left) == Truthy(left.error)

\* Combine with the two lists in the other order
CombineRightFirst(left_results, right) ==
    IF Truthy(right.error) THEN Result(right.results, right.error)
    ELSE IF left_results.t = "list" /\ right.results.t = "list"
    THEN Result(PyList(right.results.v \o left_results.v), None)
    ELSE Raise("TypeError")

\* Combine handing back what was gathered so far along with the error
CombineKeepLeft(left_results, right) ==
    IF left_results.t = "list" /\ right.results.t = "list"
    THEN Result(PyList(left_results.v \o right.results.v), right.error)
    ELSE Raise("TypeError")

\* lines 97-99: the value returned once the right call came back
Combine(left_results, right) ==
    IF Truthy(right.error) THEN Result(right.results, right.error)
    ELSE IF left_results.t = "list" /\ right.results.t = "list"
    THEN Result(PyList(left_results.v \o right.results.v), None)
    ELSE Raise("TypeError")

Top == stack[Len(stack)]
Below == SubSeq(stack, 1, Len(stack) - 1)

Call(w, depth) == Frame(w.start_time, w.end_time, depth)

\* an exception unwinds fetch_recursive and, under Flask, csv_download
Crash(e) ==
    /\ phase' = "crashed"
    /\ stack' = <<>>
    /\ ret' = NoRet
    /\ response' = IF entry = "csv_download" THEN InternalServerError(e) ELSE response

\* the innermost fetch_recursive call returns r
Return(r) ==
    /\ stack' = Below
    /\ ret' = r
    /\ phase' = IF Below = <<>> THEN "returned" ELSE phase
    /\ response' = response

\* fetch_newrelic_data, lines 35-64: the query is posted
post_query ==
    /\ phase = "extracting"
    /\ stack # <<>>
    /\ Top.pc = "fetch"
    /\ Top.depth <= MaxDepth
    /\ inflight' = Append(inflight, Query(Top.start_time, Top.end_time))
    /\ stack' = Below \o <<[Top EXCEPT !.pc = "await"]>>
    /\ UNCHANGED <<service, data, phase, entry, form, root, ret, wire, calls,
                   leaves, response>>

\* the answers the service can give to the query in flight
Answers ==
    IF inflight = <<>> THEN {}
    ELSE Responses(service, data, Len(calls) + 1, Head(inflight))

\* fetch_newrelic_data, lines 65-78, then fetch_recursive, lines 83-93:
\* the answer arrives, the client returns, the window is accepted or split
receive(resp) ==
    /\ phase = "extracting"
    /\ stack # <<>>
    /\ Top.pc = "await"
    /\ resp \in Answers
    /\ LET r == fetch_newrelic_data(resp)
           act == Decide(Top.start_time, Top.end_time, r)
           mid == MidTime(Top.start_time, Top.end_time)
       IN  /\ wire' = resp
           /\ inflight' = Tail(inflight)
           /\ calls' = Append(calls, [start_time |-> Top.start_time,
                                      end_time |-> Top.end_time,
                                      depth |-> Top.depth,
                                      result |-> r])
           /\ CASE act = "raise" ->
                     /\ Crash(IF r.t = "raise" THEN r.v ELSE "TypeError")
                     /\ leaves' = leaves
                [] act = "return" ->
                     /\ Return(r)
                     /\ leaves' = IF Truthy(r.error) THEN leaves
                                  ELSE Append(leaves, Window(Top.start_time, Top.end_time))
                [] act = "split" ->
                     /\ stack' = Below
                                 \o <<[Top EXCEPT !.pc = "left", !.mid_time = mid]>>
                                 \o <<Call(LeftCall(Top.start_time, mid), Top.depth + 1)>>
                     /\ UNCHANGED <<phase, ret, leaves, response>>
    /\ UNCHANGED <<service, data, entry, form, root>>

\* lines 93-96: the left call returned
left_returns ==
    /\ phase = "extracting"
    /\ stack # <<>>
    /\ Top.pc = "left"
    /\ ret # NoRet
    /\ IF LeftFails(ret)
       THEN Return(Result(ret.results, ret.error))
       ELSE /\ stack' = Below
                        \o <<[Top EXCEPT !.pc = "right", !.left_results = ret.results]>>
                        \o <<Call(RightCall(Top.mid_time, Top.end_time), Top.depth + 1)>>
            /\ ret' = NoRet
            /\ UNCHANGED <<phase, response>>
    /\ UNCHANGED <<service, data, entry, form, root, inflight, wire, calls, leaves>>

\* lines 96-99: the right call returned
right_returns ==
    /\ phase = "extracting"
    /\ stack # <<>>
    /\ Top.pc = "right"
    /\ ret # NoRet
    /\ LET r == Combine(Top.left_results, ret)
       IN  IF r.t = "raise" THEN Crash(r.v) ELSE Return(r)
    /\ UNCHANGED <<service, data, entry, form, root, inflight, wire, calls, leaves>>

(* ---------------------- csv_download, continued ----------------------- *)
RECURSIVE Insert(_, _)
Insert(r, sorted) ==
    IF sorted = <<>> THEN <<r>>
    ELSE IF Head(sorted).timestamp <= r.timestamp
    THEN <<Head(sorted)>> \o Insert(r, Tail(sorted))
    ELSE <<r>> \o sorted

RECURSIVE SortByTimestamp(_)
\* results.sort(key=lambda r: int(r.get("timestamp", 0))), a stable sort
SortByTimestamp(runs) ==
    IF runs = <<>> THEN <<>>
    ELSE Insert(runs[Len(runs)], SortByTimestamp(SubSeq(runs, 1, Len(runs) - 1)))

\* the rows of the CSV: the timestamp printed as wall-clock time to the second
CsvRows(runs) ==
    [i \in 1..Len(runs) |->
        [timestamp_str |-> (runs[i].timestamp \div 1000) - TZ_BR_SECONDS,
         src |-> runs[i].src, lo |-> runs[i].lo, hi |-> runs[i].hi]]

\* lines 355-393: what csv_download answers once fetch_recursive returned
Answer(results, fetch_error) ==
    IF Truthy(fetch_error) THEN HTML_CSV_DOWNLOAD(fetch_error, results)
    ELSE IF Truthy(results)
    THEN [t |-> "response", kind |-> "csv", error |-> None, not_found |-> FALSE,
          rows |-> CsvRows(SortByTimestamp(results.v))]
    ELSE HTML_CSV_DOWNLOAD(None, results)

finish ==
    /\ phase = "returned"
    /\ entry = "csv_download"
    /\ phase' = "responded"
    /\ response' = Answer(ret.results, ret.error)
    /\ UNCHANGED <<service, data, entry, form, root, stack, ret, inflight, wire,
                   calls, leaves>>

Next ==
    \/ \E f \in Forms : csv_download(f)
    \/ \E w \in DirectWindows : fetch(w)
    \/ post_query
    \/ \E resp \in Answers : receive(resp)
    \/ left_returns
    \/ right_returns
    \/ finish

Spec == Init /\ [][Next]_vars

(* ------------------------------ properties ---------------------------- *)
\* the outermost fetch_recursive call has returned a value to its caller
Returned == phase \in {"returned", "responded"} /\ ret # NoRet
EmptyWindow == root # None /\ root.start_time = root.end_time
Failed(r) == r.t = "ret" /\ Truthy(r.error)

\* C1 as stated: for an empty window (start == end) fetch_recursive returns
\* an empty list with no error and has made no call to the client.
C1_NoCallOnEmptyWindow ==
    (Returned /\ EmptyWindow) =>
        (calls = <<>> /\ ret = Result(PyList(<<>>), None))

\* C1 amended: for an empty window fetch_recursive makes exactly one call to
\* the client, for that window, and returns what that call returned.
C1_OneCallOnEmptyWindow ==
    EmptyWindow =>
        /\ Len(calls) + Len(inflight) <= 1
        /\ \A i \in DOMAIN calls :
              Window(calls[i].start_time, calls[i].end_time) = root
        /\ Returned => (Len(calls) = 1 /\ ret = calls[1].result)

\* an empty window was extracted and the one page came back full
C1_Witness ==
    /\ Returned
    /\ EmptyWindow
    /\ ret.error = None
    /\ PyLen(ret.results) = MAX_RESULTS

\* C2: when a call to the client returned an error, fetch_recursive returns
\* that error with an empty list, whatever the calls before it gathered.
C2_FailFast ==
    Returned =>
        \A i \in DOMAIN calls :
            Failed(calls[i].result) =>
                ret = Result(PyList(<<>>), calls[i].result.error)

\* the right branch failed after the left branch had delivered records
C2_Witness ==
    /\ Returned
    /\ Len(calls) >= 3
    /\ Failed(calls[Len(calls)].result)
    /\ \E i \in DOMAIN calls :
          /\ calls[i].depth = 1
          /\ calls[i].result.t = "ret"
          /\ ~Truthy(calls[i].result.error)
          /\ PyLen(calls[i].result.results) > 0
          /\ Window(calls[i].start_time, calls[i].end_time) \in
                {leaves[j] : j \in DOMAIN leaves}

Duration(w) == TdSub(w.end_time, w.start_time)
Zero == [s |-> 0, us |-> 0]

RECURSIVE Pow2(_)
Pow2(n) == IF n <= 0 THEN 1 ELSE 2 * Pow2(n - 1)

\* the timedelta d taken n times
TdTimes(d, n) ==
    LET u == d.us * n
    IN  [s |-> d.s * n + (u \div MicrosPerSecond), us |-> u % MicrosPerSecond]

\* every call on the stack below the top was split: it stood above the floor
\* and the call it made is strictly shorter
SplitsShrink ==
    \A i \in 2..Len(stack) :
        /\ ~TdLe(Duration(stack[i - 1]), MIN_INTERVAL)
        /\ TdLt(Duration(stack[i]), Duration(stack[i - 1]))

\* C3: fetch_recursive returns to its caller (or is left by an exception)
\* whatever the client answers, every page full included, because a window is
\* split only above the floor and into strictly shorter windows.
C3_Termination ==
    /\ [] SplitsShrink
    /\ (phase = "extracting") ~> (phase # "extracting")

AllFull ==
    \A i \in DOMAIN calls :
        /\ calls[i].result.t = "ret"
        /\ calls[i].result.error = None
        /\ PyLen(calls[i].result.results) = MAX_RESULTS

\* a three-minute extraction returned after seven calls that all came back full
C3_Witness ==
    /\ phase = "returned"
    /\ Len(calls) >= 7
    /\ AllFull

\* C4 as stated: a window visited at depth d has 2^d <= D / M, where D is the
\* duration of the requested window and M the floor.
C4_DepthWithinLog2 ==
    root # None =>
        \A i \in DOMAIN stack :
            TdLe(TdTimes(MIN_INTERVAL, Pow2(stack[i].depth)), Duration(root))

\* C4 amended: a window visited at depth d >= 1 has 2^(d-1) < D / M, that is
\* the depth is at most the ceiling of log2(D / M) when D > M, and 0 otherwise.
C4_DepthWithinCeilLog2 ==
    root # None =>
        \A i \in DOMAIN stack :
            stack[i].depth >= 1 =>
                TdLt(TdTimes(MIN_INTERVAL, Pow2(stack[i].depth - 1)), Duration(root))

\* a window of three minutes is visited at depth 2, and 2^2 > 3
C4_Witness ==
    /\ root # None
    /\ Duration(root) = [s |-> 180, us |-> 0]
    /\ \E i \in DOMAIN stack : stack[i].depth = 2 /\ stack[i].pc = "await"

RECURSIVE TotalDuration(_)
TotalDuration(ws) ==
    IF ws = <<>> THEN Zero
    ELSE DtAdd(TotalDuration(Tail(ws)), Duration(Head(ws)))

Succeeded == Returned /\ ~Truthy(ret.error)

\* C5: when the extraction succeeds, the accepted windows, in the order they
\* were accepted, tile the requested window: the first starts where it starts,
\* the last ends where it ends, each ends where the next starts, and their
\* durations add up to its duration.
C5_LeavesTile ==
    Succeeded =>
        /\ leaves # <<>>
        /\ leaves[1].start_time = root.start_time
        /\ leaves[Len(leaves)].end_time = root.end_time
        /\ \A i \in 1..(Len(leaves) - 1) :
              leaves[i].end_time = leaves[i + 1].start_time
        /\ TotalDuration(leaves) = Duration(root)

\* a successful extraction with four leaves
C5_Witness ==
    /\ Succeeded
    /\ Len(leaves) >= 4

\* the instant of an epoch-millisecond timestamp
Instant(ts) == [s |-> ts \div 1000, us |-> (ts % 1000) * 1000]

\* the stored events with start_time <= timestamp < end_time, oldest first
Stored(d, w) ==
    LET hit == {ts \in ClusterTimes :
                   /\ d[ts] > 0
                   /\ TdLe(w.start_time, Instant(ts))
                   /\ TdLt(Instant(ts), w.end_time)}
        order == Ascending(hit)
    IN  [i \in 1..Len(order) |->
            [timestamp |-> order[i], src |-> 0, lo |-> 1, hi |-> d[order[i]]]]

CallWindow(c) == Window(c.start_time, c.end_time)

\* every call so far was answered with the events of its half-open window,
\* cut to at most MAX_RESULTS
ClientExact ==
    \A i \in DOMAIN calls :
        calls[i].result =
            Result(PyList(Take(Stored(data, CallWindow(calls[i])), MAX_RESULTS)), None)

LeavesBelowCap ==
    \A i \in DOMAIN calls :
        CallWindow(calls[i]) \in {leaves[j] : j \in DOMAIN leaves} =>
            PyLen(calls[i].result.results) < MAX_RESULTS

\* C6: when the client answers every window [s, e) with exactly the events in
\* [s, e), cut to the cap, and every leaf got fewer than the cap, then
\* fetch_recursive returns every event of the requested window exactly once.
C6_Complete ==
    (Returned /\ ClientExact /\ LeavesBelowCap) =>
        ret = Result(PyList(Stored(data, root)), None)

\* the window was split and events on both sides of a split point came back
C6_Witness ==
    /\ Returned
    /\ ClientExact
    /\ LeavesBelowCap
    /\ Len(leaves) >= 2
    /\ PyLen(ret.results) >= MAX_RESULTS
    /\ \E i \in DOMAIN leaves :
          /\ i > 1
          /\ \E ts \in ClusterTimes :
                data[ts] > 0 /\ Instant(ts) = leaves[i].start_time

RECURSIVE HasPath(_, _)
\* the parsed body holds a list under the keys, every value on the way a dict
HasPath(v, keys) ==
    IF keys = <<>> THEN v.t = "list"
    ELSE /\ v.t = "dict"
         /\ Head(keys) \in DOMAIN v.v
         /\ HasPath(v.v[Head(keys)], Tail(keys))

\* transport failure, non-2xx status, body that is not JSON, or a parsed body
\* without the expected structure
FailedCall(resp) ==
    \/ resp.net = "down"
    \/ resp.status \notin 200..299
    \/ ~resp.body.json
    \/ ~HasPath(resp.body.value, Path)

\* C7 as stated: for every failed call the client returns a non-empty error
\* and an empty list, never a success value and never an exception.
C7_FailedCallReturnsError ==
    (wire # None /\ calls # <<>> /\ FailedCall(wire)) =>
        /\ Failed(calls[Len(calls)].result)
        /\ calls[Len(calls)].result.results = PyList(<<>>)

\* C8 as stated: when fetch_recursive returned an error, the page shows the
\* error and not the 'no results found' paragraph; that paragraph is shown
\* only after a successful extraction with an empty list.
C8_FailureNotShownAsEmpty ==
    (phase = "responded" /\ ret # NoRet) =>
        /\ Truthy(ret.error) => (response.error = ret.error /\ ~response.not_found)
        /\ response.not_found => (~Truthy(ret.error) /\ ret.results = PyList(<<>>))

\* C9 as stated: every window handed to the client in an extraction started
\* by csv_download has start <= end.
C9_WindowsOrdered ==
    entry = "csv_download" =>
        /\ \A i \in DOMAIN calls : TdLe(calls[i].start_time, calls[i].end_time)
        /\ \A i \in DOMAIN stack :
              stack[i].pc = "await" => TdLe(stack[i].start_time, stack[i].end_time)

Blank(c) == c.t = "None" \/ \A i \in DOMAIN c.v : c.v[i] \in Whitespace
Unparseable(d) == d.t # "str" \/ "minute" \notin DOMAIN d
TooLong(f) ==
    /\ ~Unparseable(f.start_date)
    /\ ~Unparseable(f.end_date)
    /\ f.end_date.minute - f.start_date.minute > 24 * 60
Invalid(f) ==
    \/ Blank(f.company_id)
    \/ Unparseable(f.start_date)
    \/ Unparseable(f.end_date)
    \/ TooLong(f)

\* C10: a form with an empty or blank company id, a start or end date that
\* does not parse, or a window longer than 24 hours is answered with an error
\* and fetch_recursive is never called for it: no window, no call, no query.
C10_ValidationFirst ==
    (form # None /\ Invalid(form)) =>
        /\ phase \in {"responded", "crashed"}
        /\ response # None
        /\ Truthy(response.error)
        /\ root = None
        /\ stack = <<>>
        /\ inflight = <<>>
        /\ calls = <<>>

\* a well-formed form whose window is longer than 24 hours was rejected
C10_Witness ==
    /\ form # None
    /\ ~Blank(form.company_id)
    /\ TooLong(form)
    /\ phase = "responded"
    /\ response.kind = "html"

LeafWindows == {leaves[j] : j \in DOMAIN leaves}
\* the client returned a list of records and no error
Page(c) == c.result.t = "ret" /\ ~Truthy(c.result.error) /\ c.result.results.t = "list"
BelowCap(c) == PyLen(c.result.results) < MAX_RESULTS
OnFloor(w) == TdLe(Duration(w), MIN_INTERVAL)

\* twice the left part is the whole, to the microsecond the halving rounds by
Halves(start_time, mid_time, end_time) ==
    TdSub(TdTimes(TdSub(mid_time, start_time), 2), TdSub(end_time, start_time))
        \in {Zero, [s |-> 0, us |-> 1], [s |-> -1, us |-> MicrosPerSecond - 1]}

\* C11: a page is accepted as the window's result, and returned as it came,
\* exactly when it holds fewer than MAX_RESULTS records or the window is at or
\* below the floor; otherwise the window is split at
\* mid = start + (end - start) / 2 into [start, mid) and [mid, end).
C11_LeafOrSplit ==
    /\ \A i \in DOMAIN calls :
          Page(calls[i]) =>
              ((BelowCap(calls[i]) \/ OnFloor(CallWindow(calls[i])))
                  <=> CallWindow(calls[i]) \in LeafWindows)
    /\ (/\ calls # <<>>
        /\ Page(calls[Len(calls)])
        /\ CallWindow(calls[Len(calls)]) \in LeafWindows
        /\ ret # NoRet
        /\ Len(stack) = calls[Len(calls)].depth)
           => ret = calls[Len(calls)].result
    /\ \A k \in DOMAIN stack :
          stack[k].pc \in {"left", "right"} =>
              /\ \E i \in DOMAIN calls :
                    /\ CallWindow(calls[i]) = CallWindow(stack[k])
                    /\ calls[i].depth = stack[k].depth
                    /\ Page(calls[i])
                    /\ ~BelowCap(calls[i])
              /\ ~OnFloor(CallWindow(stack[k]))
              /\ Halves(stack[k].start_time, stack[k].mid_time, stack[k].end_time)
              /\ k < Len(stack) =>
                    CallWindow(stack[k + 1]) =
                        IF stack[k].pc = "left"
                        THEN Window(stack[k].start_time, stack[k].mid_time)
                        ELSE Window(stack[k].mid_time, stack[k].end_time)

\* a window above the floor was split on a full page, and a full page on the
\* floor was returned without an error
C11_Witness ==
    /\ Succeeded
    /\ \E i \in DOMAIN calls :
          /\ calls[i].depth >= 1
          /\ Page(calls[i])
          /\ PyLen(calls[i].result.results) = MAX_RESULTS
          /\ OnFloor(CallWindow(calls[i]))
          /\ CallWindow(calls[i]) \in LeafWindows

\* C12: once a call to the client returned an error, no further call is made
\* in the extraction: the failed call is the last one, no query is in flight
\* and no call of fetch_recursive is about to post one (the right sibling of a
\* failed left subtree included); so there is at most one client error, and
\* it is the error fetch_recursive returns.
C12_AbortOnFirstError ==
    \A i \in DOMAIN calls :
        Failed(calls[i].result) =>
            /\ i = Len(calls)
            /\ inflight = <<>>
            /\ \A k \in DOMAIN stack : stack[k].pc \in {"left", "right"}
            /\ ret # NoRet
            /\ ret.error = calls[i].result.error
            /\ Returned => Len(calls) = i

\* the left subtree failed below a split window: the extraction returned and
\* the right sibling of the failed window was never queried
C12_Witness ==
    /\ Returned
    /\ Len(calls) = 3
    /\ calls[2].depth = 1
    /\ calls[3].depth = 2
    /\ Failed(calls[3].result)
    /\ calls[3].start_time = root.start_time

\* window v at depth dv lies in the subtree of window w at depth dw
Under(v, dv, w, dw) ==
    /\ dv > dw
    /\ TdLe(w.start_time, v.start_time)
    /\ TdLe(v.end_time, w.end_time)

\* a call for w at depth dw that came before one for v at depth dv: v is a
\* sub-window of w, or w lies wholly to the left of v
DepthFirst(w, dw, v, dv) ==
    Under(v, dv, w, dw) \/ TdLe(w.end_time, v.start_time)

\* C13: at most one query is in flight, and it belongs to the innermost call;
\* every window visited is queried once; the completed calls come in
\* depth-first order, a window before its sub-windows and the whole left
\* subtree before the right one, and the query in flight comes after them all.
C13_SequentialDepthFirst ==
    /\ Len(inflight) <= 1
    /\ \A k \in DOMAIN stack :
          stack[k].pc = "await" => (k = Len(stack) /\ Len(inflight) = 1)
    /\ inflight # <<>> => (stack # <<>> /\ stack[Len(stack)].pc = "await")
    /\ \A i, j \in DOMAIN calls :
          i < j => CallWindow(calls[i]) # CallWindow(calls[j])
    /\ \A k \in DOMAIN stack :
          Cardinality({i \in DOMAIN calls :
                          /\ CallWindow(calls[i]) = CallWindow(stack[k])
                          /\ calls[i].depth = stack[k].depth})
              = IF stack[k].pc \in {"fetch", "await"} THEN 0 ELSE 1
    /\ \A i, j \in DOMAIN calls :
          i < j => DepthFirst(CallWindow(calls[i]), calls[i].depth,
                              CallWindow(calls[j]), calls[j].depth)
    /\ \A i \in DOMAIN calls :
          (stack # <<>> /\ stack[Len(stack)].pc = "await") =>
              DepthFirst(CallWindow(calls[i]), calls[i].depth,
                         CallWindow(stack[Len(stack)]), stack[Len(stack)].depth)

\* the last query of a three-level extraction is in flight: the left subtree
\* and the left half of the right subtree are done
C13_Witness ==
    /\ Len(inflight) = 1
    /\ Len(stack) = 3
    /\ stack[1].pc = "right"
    /\ stack[2].pc = "right"
    /\ Len(calls) = 6

\* the completed call that queried window w
CallFor(w) == calls[CHOOSE i \in DOMAIN calls : CallWindow(calls[i]) = w]

RECURSIVE PagesOf(_)
\* the pages of the windows ws, one after another
PagesOf(ws) ==
    IF ws = <<>> THEN <<>>
    ELSE CallFor(Head(ws)).result.results.v \o PagesOf(Tail(ws))

\* C14: on success the list fetch_recursive returns is the pages of the leaf
\* windows, in the order of the windows, each page as the client returned it;
\* no record of a page whose window was split is in it.
C14_ConcatenatedLeafPages ==
    (/\ Succeeded
     /\ ret.results.t = "list"
     /\ \A j \in DOMAIN leaves : Page(CallFor(leaves[j])))
        => /\ ret.results.v = PagesOf(leaves)
           /\ service = "any" =>
                 \A n \in DOMAIN ret.results.v :
                     CallWindow(calls[ret.results.v[n].src]) \in LeafWindows

\* three or more leaves delivered records, below windows whose full pages
\* were dropped
C14_Witness ==
    /\ Succeeded
    /\ service = "any"
    /\ Len(leaves) >= 3
    /\ \A j \in DOMAIN leaves : PyLen(CallFor(leaves[j]).result.results) > 0
    /\ Len(ret.results.v) = Len(leaves)

\* the service answers anything, and every step that can be taken is taken
InitAny == Init /\ service = "any"
FairSpec == InitAny /\ [][Next]_vars /\ WF_vars(Next)
====
